---- MODULE Spec2Model ----
(***************************************************************************)
(* Task MCP HTTP client (docs/examples/python/task_mcp_client.py).         *)
(*                                                                         *)
(* Two specifications over one set of variables:                           *)
(*   Spec        - the client object: its session, one execute call at a   *)
(*                 time (execute_tool_sse / execute_tool_ndjson) with the  *)
(*                 retry loop, and close() issued by another task;         *)
(*   SpecRequest - one request attempt (_execute_sse_request /             *)
(*                 _execute_ndjson_request) run frame by frame over every  *)
(*                 bounded response.                                       *)
(* Time is counted in abstract units; JSON payloads, messages and error    *)
(* objects are records over small sets of representative values.           *)
(***************************************************************************)
EXTENDS Naturals, Sequences, FiniteSets

VARIABLES
  \* ---- the client and one execute call (Spec)
  retry_attempts,  \* config.retry_attempts
  retry_delay,     \* config.retry_delay, in time units
  session,         \* self.session: "None", "open" or "closed"
  pc,              \* where the execute call stands
  mode,            \* "sse" (execute_tool_sse) or "ndjson" (execute_tool_ndjson)
  it,              \* the value range() last handed to the loop variable
  attempt,         \* the loop variable `attempt`
  last_error,      \* the local last_error
  returned,        \* the value the call returned ("None" while it has not)
  raised,          \* the exception the call raised (NoError while it has not)
  requests,        \* ghost: number of _execute_*_request invocations of the call
  delays,          \* ghost: the delays handed to asyncio.sleep, in order
  wakes,           \* ghost: number of sleeps that completed
  outcomes,        \* ghost: how each attempt of the call ended, in order
  last_status,     \* ghost: HTTP status the latest attempt met (0: none)
  sent_on,         \* ghost: self.session at the latest session.post
  \* ---- one request attempt, frame by frame (SpecRequest)
  rmode,           \* transport of the attempt
  resp,            \* the response the server produces
  rpos,            \* number of frames/lines the parser has consumed
  result,          \* the local `result` of the request function
  rpc,             \* "post", "stream", "done"
  rout,            \* outcome of the attempt
  \* ---- one execute_batch over the shared session (SpecBatch)
  operations,      \* the argument of execute_batch
  bpc,             \* "idle", "gathering", "done"
  tpc,             \* where each of the gathered calls stands
  tatt,            \* requests each gathered call has made
  tres,            \* outcome of each gathered call
  results,         \* processed_results, once returned
  created,         \* ghost: number of ClientSession objects constructed
  open_sessions,   \* ghost: number of them that are open
  closes           \* ghost: number of close() calls

callVars == <<retry_attempts, retry_delay, session, pc, mode, it, attempt,
              last_error, returned, raised, requests, delays, wakes,
              outcomes, last_status, sent_on>>
reqVars  == <<rmode, resp, rpos, result, rpc, rout>>
batchVars == <<operations, bpc, tpc, tatt, tres, results, created,
               open_sessions, closes>>
vars     == <<retry_attempts, retry_delay, session, pc, mode, it, attempt,
              last_error, returned, raised, requests, delays, wakes,
              outcomes, last_status, sent_on,
              rmode, resp, rpos, result, rpc, rout,
              operations, bpc, tpc, tatt, tres, results, created,
              open_sessions, closes>>

(***************************************************************************)
(* Bounds of the model.                                                    *)
(***************************************************************************)
MaxRetryAttempts == 3   \* retry_attempts ranges over 1..MaxRetryAttempts
MaxRetryDelay == 2      \* retry_delay ranges over 1..MaxRetryDelay
MaxLen == 3             \* frames/lines of a cleanly ending 200 response
MaxShortLen == 1        \* frames/lines of the other responses
MaxOps == 2             \* operations of one execute_batch: 0..MaxOps
MaxBatchAttempts == 2   \* retry_attempts of the client running a batch
MaxCloses == 2          \* close() calls made while batches run

Modes == {"sse", "ndjson"}

(***************************************************************************)
(* Exceptions.  An exception object is a record; `id` stands for the       *)
(* object's identity: the number of the request attempt that created it.   *)
(***************************************************************************)
NoError == [type |-> "None", message |-> "", code |-> "None",
            details |-> "None", id |-> 0]

\* TaskMCPError.__init__: details or {}
TaskMCPError(message, code, details, id) ==
  [type |-> "TaskMCPError", message |-> message, code |-> code,
   details |-> IF details = "None" THEN "{}" ELSE details, id |-> id]

\* An exception of another class: it has no code and no details attribute.
OtherError(type, message, id) ==
  [type |-> type, message |-> message, code |-> "None", details |-> "None",
   id |-> id]

\* What the transport raises when the connection fails.
TransportFailures ==
  {"ClientConnectorError", "ClientPayloadError", "TimeoutError",
   "ConnectionResetError", "OSError"}

TransportError(kind, id) ==
  CASE kind = "ClientConnectorError" ->
         OtherError(kind, "Cannot connect to host", id)
    [] kind = "ClientPayloadError" ->
         OtherError(kind, "Response payload is not completed", id)
    [] kind = "TimeoutError" -> OtherError(kind, "", id)
    [] kind = "OSError" -> OtherError(kind, "Operation Timeout", id)
    [] OTHER -> OtherError("ConnectionResetError", "Connection reset by peer", id)

\* 'X' object has no attribute 'get': .get() on a JSON value that is no object
AttributeError(id) ==
  OtherError("AttributeError", "'list' object has no attribute 'get'", id)

\* aiohttp refuses a request on a closed session
SessionClosedError(id) == OtherError("RuntimeError", "Session is closed", id)

\* isinstance(error, cls) for the classes the client tests
IsInstance(error, cls) ==
  CASE cls = "TaskMCPError" -> error.type = "TaskMCPError"
    [] cls = "ClientError" ->
         error.type \in {"ClientConnectorError", "ClientPayloadError"}
    [] cls = "TimeoutError" -> error.type = "TimeoutError"
    [] OTHER -> FALSE

\* str(error).lower()
Lower(s) ==
  CASE s = "Cannot connect to host" -> "cannot connect to host"
    [] s = "Response payload is not completed" -> "response payload is not completed"
    [] s = "Connection reset by peer" -> "connection reset by peer"
    [] s = "Operation Timeout" -> "operation timeout"
    [] s = "Session is closed" -> "session is closed"
    [] s = "Internal error" -> "internal error"
    [] s = "Timed out" -> "timed out"
    [] s = "Backend unavailable" -> "backend unavailable"
    [] s = "Tool execution error" -> "tool execution error"
    [] s = "No result received from server" -> "no result received from server"
    [] s = "Rate limit exceeded" -> "rate limit exceeded"
    [] s = "Connection string is invalid" -> "connection string is invalid"
    [] s = "HTTP 201" -> "http 201"
    [] s = "HTTP 404" -> "http 404"
    [] s = "HTTP 429" -> "http 429"
    [] s = "HTTP 504" -> "http 504"
    [] s = "HTTP 201: Created" -> "http 201: created"
    [] s = "HTTP 404: Not Found" -> "http 404: not found"
    [] s = "HTTP 429: Too Many Requests" -> "http 429: too many requests"
    [] s = "HTTP 504: Gateway Timeout" -> "http 504: gateway timeout"
    [] OTHER -> s

\* sub in s, for the two substrings the client looks for
Contains(sub, s) ==
  CASE sub = "timeout" -> s \in {"http 504: gateway timeout", "operation timeout"}
    [] sub = "connection" ->
         s \in {"connection reset by peer", "connection string is invalid"}
    [] OTHER -> FALSE

(***************************************************************************)
(* Stream events.  A frame is what one SSE event or one NDJSON line holds: *)
(*   name     event.event (SSE) / the "type" member (NDJSON)               *)
(*   json     "blank": empty after strip, "bad": not valid JSON,           *)
(*            "scalar": valid JSON that is no object, "object"             *)
(*   result   the "result" member ("None": absent or null)                 *)
(*   err      the "error" member: "Absent", "Scalar" (no object), "Object" *)
(*   message, code, details: members of the error object ("Absent"/"None") *)
(***************************************************************************)
Frame(name, json, res, err, message, code, details) ==
  [name |-> name, json |-> json, result |-> res, err |-> err,
   message |-> message, code |-> code, details |-> details]

Plain(name, json) == Frame(name, json, "None", "Absent", "Absent", "None", "None")

ResultEvent(v) == Frame("result", "object", v, "Absent", "Absent", "None", "None")

ErrorEvent(message, code, details) ==
  Frame("error", "object", "None", "Object", message, code, details)

Frames ==
  { ResultEvent("R1"), ResultEvent("R2"), ResultEvent("None"),
    ErrorEvent("Rate limit exceeded", "RATE_LIMIT_EXCEEDED", "D1"),
    ErrorEvent("Connection string is invalid", "VALIDATION_FAILED", "None"),
    ErrorEvent("Absent", "None", "None"),
    Frame("error", "object", "None", "Scalar", "Absent", "None", "None"),
    Plain("heartbeat", "object"), Plain("start", "object"),
    Plain("end", "object"), Plain("progress", "object"),
    Plain("error", "bad"), Plain("result", "scalar"), Plain("", "blank") }

RECURSIVE SeqsUpTo(_, _)
SeqsUpTo(S, n) ==
  IF n = 0 THEN { <<>> }
  ELSE LET shorter == SeqsUpTo(S, n - 1)
       IN  shorter \cup { Append(s, f) : s \in { t \in shorter : Len(t) = n - 1 }, f \in S }

(***************************************************************************)
(* The parser loops.  A loop state is the local `result`, how the loop     *)
(* goes on ("run", "break", "raise") and the exception raised.             *)
(***************************************************************************)
LoopState(res, ctl, error) == [result |-> res, ctl |-> ctl, error |-> error]

\* raise TaskMCPError(error_info.get("message", "Tool execution error"),
\*                    error_info.get("code"), error_info.get("details"))
ErrorFromInfo(f, id) ==
  TaskMCPError(IF f.message = "Absent" THEN "Tool execution error" ELSE f.message,
               f.code, f.details, id)

\* data.get("error", {}) followed by the three error_info.get(...)
RaiseErrorEvent(st, f, id) ==
  IF f.err = "Scalar"
  THEN LoopState(st.result, "raise", AttributeError(id))
  ELSE LoopState(st.result, "raise", ErrorFromInfo(f, id))

\* (mutant) an error event is passed over once a result was captured
SseEventKeepResult(st, f, id) ==
  IF f.json \in {"bad", "blank"}
  THEN st
  ELSE IF f.name = "result"
       THEN IF f.json = "scalar"
            THEN LoopState(st.result, "raise", AttributeError(id))
            ELSE LoopState(f.result, "run", st.error)
  ELSE IF f.name = "error" /\ st.result = "None"
       THEN IF f.json = "scalar"
            THEN LoopState(st.result, "raise", AttributeError(id))
            ELSE RaiseErrorEvent(st, f, id)
  ELSE st

\* (mutant) json.JSONDecodeError not caught
SseEventNoCatch(st, f, id) ==
  IF f.json \in {"bad", "blank"}
  THEN LoopState(st.result, "raise", OtherError("JSONDecodeError", "Expecting value", id))
  ELSE IF f.name = "result"
       THEN IF f.json = "scalar"
            THEN LoopState(st.result, "raise", AttributeError(id))
            ELSE LoopState(f.result, "run", st.error)
  ELSE IF f.name = "error"
       THEN IF f.json = "scalar"
            THEN LoopState(st.result, "raise", AttributeError(id))
            ELSE RaiseErrorEvent(st, f, id)
  ELSE st

\* One iteration of `async for event in client` of _execute_sse_request.
SseEvent(st, f, id) ==
  IF f.json \in {"bad", "blank"}
  THEN st                                   \* json.JSONDecodeError: continue
  ELSE IF f.name = "result"
       THEN IF f.json = "scalar"
            THEN LoopState(st.result, "raise", AttributeError(id))
            ELSE LoopState(f.result, "run", st.error)
  ELSE IF f.name = "error"
       THEN IF f.json = "scalar"
            THEN LoopState(st.result, "raise", AttributeError(id))
            ELSE RaiseErrorEvent(st, f, id)
  ELSE st                                   \* heartbeat: continue; other names

\* (mutant) `end` handled like `start`: continue instead of break
NdjsonLineNoBreak(st, f, id) ==
  IF f.json = "blank" THEN st
  ELSE IF f.json = "bad" THEN st
  ELSE IF f.json = "scalar"
       THEN LoopState(st.result, "raise", AttributeError(id))
  ELSE IF f.name = "result" THEN LoopState(f.result, "run", st.error)
  ELSE IF f.name = "error" THEN RaiseErrorEvent(st, f, id)
  ELSE st

\* One iteration of `async for line in response.content` of
\* _execute_ndjson_request.
NdjsonLine(st, f, id) ==
  IF f.json = "blank" THEN st               \* if line_str: (false)
  ELSE IF f.json = "bad" THEN st            \* json.JSONDecodeError: continue
  ELSE IF f.json = "scalar"                 \* event.get on a non-object
       THEN LoopState(st.result, "raise", AttributeError(id))
  ELSE IF f.name = "result" THEN LoopState(f.result, "run", st.error)
  ELSE IF f.name = "error" THEN RaiseErrorEvent(st, f, id)
  ELSE IF f.name = "start" THEN st          \* continue
  ELSE IF f.name = "end" THEN LoopState(st.result, "break", st.error)
  ELSE st

StreamStep(m, st, f, id) ==
  IF m = "sse" THEN SseEvent(st, f, id) ELSE NdjsonLine(st, f, id)

(***************************************************************************)
(* Responses of the server and outcomes of one request attempt.            *)
(*   status, reason   response.status / response.reason                    *)
(*   body             of a non-200 response: content type, JSON shape and   *)
(*                    the members of its "error" object                     *)
(*   stream           the frames/lines the server sends                     *)
(*   fail             how the stream ends: "None" (end of input) or the     *)
(*                    exception the transport raises after the last frame   *)
(***************************************************************************)
Body(ctype, json, err, message, code, details) ==
  [ctype |-> ctype, json |-> json, err |-> err, message |-> message,
   code |-> code, details |-> details]

NoBody == Body("json", "bad", "Absent", "Absent", "None", "None")

Bodies ==
  { Body("text", "bad", "Absent", "Absent", "None", "None"),
    NoBody,
    Body("json", "scalar", "Absent", "Absent", "None", "None"),
    Body("json", "object", "Absent", "Absent", "None", "None"),
    Body("json", "object", "Scalar", "Absent", "None", "None"),
    Body("json", "object", "Object", "Rate limit exceeded", "RATE_LIMIT_EXCEEDED", "D1"),
    Body("json", "object", "Object", "Connection string is invalid", "VALIDATION_FAILED", "None"),
    Body("json", "object", "Object", "Internal error", "INTERNAL_ERROR", "None"),
    Body("json", "object", "Object", "Timed out", "TIMEOUT", "None"),
    Body("json", "object", "Object", "Backend unavailable", "CONNECTION_ERROR", "None"),
    \* a JSON error object served with a content type that is not JSON
    Body("text", "object", "Object", "Rate limit exceeded", "RATE_LIMIT_EXCEEDED", "D1") }

Statuses == {200, 201, 404, 429, 504}

Response(status, body, stream, fail) ==
  [status |-> status, body |-> body, stream |-> stream, fail |-> fail]

Responses ==
  { Response(200, NoBody, s, "None") : s \in SeqsUpTo(Frames, MaxLen) }
  \cup { Response(200, NoBody, s, k) :
           s \in SeqsUpTo(Frames, MaxShortLen), k \in TransportFailures }
  \cup { Response(st, b, s, "None") :
           st \in Statuses \ {200}, b \in Bodies, s \in SeqsUpTo(Frames, MaxShortLen) }

\* The responses an attempt of an execute call may meet.
CallResponses ==
  { r \in Responses :
      /\ Len(r.stream) <= MaxShortLen
      /\ r.status # 200 => r.stream = <<>> }

Pending == [kind |-> "pending", value |-> "None", error |-> NoError]
Returned(v) == [kind |-> "returned", value |-> v, error |-> NoError]
Raised(e) == [kind |-> "raised", value |-> "None", error |-> e]

\* f"HTTP {response.status}"
HttpMessage(status) ==
  CASE status = 201 -> "HTTP 201"
    [] status = 404 -> "HTTP 404"
    [] status = 429 -> "HTTP 429"
    [] OTHER -> "HTTP 504"

\* f"HTTP {response.status}: {response.reason}"
HttpReasonMessage(status) ==
  CASE status = 201 -> "HTTP 201: Created"
    [] status = 404 -> "HTTP 404: Not Found"
    [] status = 429 -> "HTTP 429: Too Many Requests"
    [] OTHER -> "HTTP 504: Gateway Timeout"

\* (mutant) the details of the error object not passed on
_handle_http_error_no_details(r, id) ==
  IF r.body.ctype # "json" \/ r.body.json = "bad"
  THEN TaskMCPError(HttpReasonMessage(r.status), "None", "None", id)
  ELSE IF r.body.json = "scalar" \/ r.body.err = "Scalar"
  THEN AttributeError(id)
  ELSE TaskMCPError(IF r.body.message = "Absent" THEN HttpMessage(r.status)
                                                 ELSE r.body.message,
                    r.body.code, "None", id)

\* _handle_http_error: the exception it raises.
_handle_http_error(r, id) ==
  IF r.body.ctype # "json" \/ r.body.json = "bad"
  THEN \* aiohttp.ContentTypeError / json.JSONDecodeError
       TaskMCPError(HttpReasonMessage(r.status), "None", "None", id)
  ELSE IF r.body.json = "scalar" \/ r.body.err = "Scalar"
  THEN AttributeError(id)
  ELSE TaskMCPError(IF r.body.message = "Absent" THEN HttpMessage(r.status)
                                                 ELSE r.body.message,
                    r.body.code, r.body.details, id)

\* (mutant) the `if result is None` test missing
FinishNoCheck(res, id) == Returned(res)

\* After the loop: if result is None: raise ...; return result
Finish(res, id) ==
  IF res = "None"
  THEN Raised(TaskMCPError("No result received from server", "None", "None", id))
  ELSE Returned(res)

\* The stream loop and what follows it, from loop state st on.
RECURSIVE RunStream(_, _, _, _, _)
RunStream(m, stream, fail, st, id) ==
  IF stream = <<>>
  THEN IF fail # "None" THEN Raised(TransportError(fail, id))
                        ELSE Finish(st.result, id)
  ELSE LET st2 == StreamStep(m, st, Head(stream), id)
       IN  IF st2.ctl = "raise" THEN Raised(st2.error)
           ELSE IF st2.ctl = "break" THEN Finish(st2.result, id)
           ELSE RunStream(m, Tail(stream), fail, st2, id)

\* _execute_sse_request / _execute_ndjson_request on response r.
ExecuteRequest(m, r, id) ==
  IF r.status # 200
  THEN Raised(_handle_http_error(r, id))
  ELSE RunStream(m, r.stream, r.fail, LoopState("None", "run", NoError), id)

_execute_sse_request(r, id) == ExecuteRequest("sse", r, id)

_execute_ndjson_request(r, id) == ExecuteRequest("ndjson", r, id)

(***************************************************************************)
(* _is_retryable_error                                                     *)
(***************************************************************************)
\* (mutant) one code missing from the list
retryable_codes_short == {"RATE_LIMIT_EXCEEDED", "INTERNAL_ERROR", "TIMEOUT"}

retryable_codes ==
  {"RATE_LIMIT_EXCEEDED", "INTERNAL_ERROR", "TIMEOUT", "CONNECTION_ERROR"}

retryable_status_codes == {429, 500, 502, 503, 504}

\* hasattr(error, "status"): no exception of the client carries one
HasStatus(error) == FALSE

\* (mutant) the two message tests dropped
_is_retryable_error_no_message(error) ==
  IF IsInstance(error, "TaskMCPError")
  THEN \/ error.code \in retryable_codes
       \/ (HasStatus(error) /\ error.status \in retryable_status_codes)
  ELSE \/ IsInstance(error, "ClientError")
       \/ IsInstance(error, "TimeoutError")

\* (mutant) the message test applied to every exception, TaskMCPError included
_is_retryable_error_any_message(error) ==
  \/ (IsInstance(error, "TaskMCPError") /\ error.code \in retryable_codes)
  \/ IsInstance(error, "ClientError")
  \/ IsInstance(error, "TimeoutError")
  \/ Contains("timeout", Lower(error.message))
  \/ Contains("connection", Lower(error.message))

_is_retryable_error(error) ==
  IF IsInstance(error, "TaskMCPError")
  THEN \/ error.code \in retryable_codes
       \/ (HasStatus(error) /\ error.status \in retryable_status_codes)
  ELSE \/ IsInstance(error, "ClientError")
       \/ IsInstance(error, "TimeoutError")
       \/ Contains("timeout", Lower(error.message))
       \/ Contains("connection", Lower(error.message))

(***************************************************************************)
(* The client: session, execute call with its retry loop (Spec).           *)
(***************************************************************************)
\* _ensure_session: the session afterwards
\* (mutant) a session constructed at every call
NeedsSessionAlways(s) == TRUE

\* if self.session is None or self.session.closed
NeedsSession(s) == s = "None" \/ s = "closed"

_ensure_session(s) == IF NeedsSession(s) THEN "open" ELSE s

\* (mutant) close() dropping the session
close_forget(s) == "None"

\* close(): the session afterwards
close(s) == IF s # "None" /\ s # "closed" THEN "closed" ELSE s

\* No execute_batch under way.
InitBatchIdle ==
  /\ operations = <<>>
  /\ bpc = "idle"
  /\ tpc = <<>>
  /\ tatt = <<>>
  /\ tres = <<>>
  /\ results = <<>>
  /\ created = 0
  /\ open_sessions = 0
  /\ closes = 0

InitRequestIdle ==
  /\ rmode = "sse"
  /\ resp = Response(200, NoBody, <<>>, "None")
  /\ rpos = 0
  /\ result = "None"
  /\ rpc = "done"
  /\ rout = Pending

Init ==
  /\ retry_attempts \in 1..MaxRetryAttempts
  /\ retry_delay \in 1..MaxRetryDelay
  /\ session = "None"
  /\ pc = "idle"
  /\ mode = "sse"
  /\ it = 0
  /\ attempt = 0
  /\ last_error = NoError
  /\ returned = "None"
  /\ raised = NoError
  /\ requests = 0
  /\ delays = <<>>
  /\ wakes = 0
  /\ outcomes = <<>>
  /\ last_status = 0
  /\ sent_on = "None"
  /\ InitRequestIdle
  /\ InitBatchIdle

\* (mutant) the attempt budget tested with > instead of >=
OnErrorOffByOne(att, error) ==
  LET a == att + 1 IN
  /\ last_error' = error
  /\ attempt' = a
  /\ IF a > retry_attempts \/ ~_is_retryable_error(error)
     THEN /\ pc' = "raised"
          /\ raised' = error
          /\ delays' = delays
     ELSE /\ pc' = "sleeping"
          /\ raised' = raised
          /\ delays' = Append(delays, retry_delay * (2 ^ (a - 1)))

\* (mutant) the exponent taken from the incremented attempt: 2 ** attempt
OnErrorDoubleDelay(att, error) ==
  LET a == att + 1 IN
  /\ last_error' = error
  /\ attempt' = a
  /\ IF a >= retry_attempts \/ ~_is_retryable_error(error)
     THEN /\ pc' = "raised"
          /\ raised' = error
          /\ delays' = delays
     ELSE /\ pc' = "sleeping"
          /\ raised' = raised
          /\ delays' = Append(delays, retry_delay * (2 ^ a))

\* The except block of the retry loop, entered with loop variable att.
OnError(att, error) ==
  LET a == att + 1 IN
  /\ last_error' = error
  /\ attempt' = a
  /\ IF a >= retry_attempts \/ ~_is_retryable_error(error)
     THEN /\ pc' = "raised"
          /\ raised' = error
          /\ delays' = delays
     ELSE /\ pc' = "sleeping"
          /\ raised' = raised
          /\ delays' = Append(delays, retry_delay * (2 ^ (a - 1)))

\* For each transport and attempt number, what the attempt may meet: the
\* status of the response and the outcome of the request function on it,
\* over all of CallResponses.
AttemptOutcomes ==
  [m \in Modes, id \in 1..(MaxRetryAttempts + 1) |->
     { [status |-> r.status,
        out |-> IF m = "sse" THEN _execute_sse_request(r, id)
                             ELSE _execute_ndjson_request(r, id)] :
       r \in CallResponses }]

\* (mutant) the result stored and the loop carried on
OnSuccessContinue(value) ==
  /\ returned' = value
  /\ pc' = IF it + 1 < retry_attempts THEN "sleeping" ELSE "returned"
  /\ UNCHANGED <<last_error, attempt, raised, delays>>

\* return await self._execute_sse_request(request)
OnSuccess(value) ==
  /\ pc' = "returned"
  /\ returned' = value
  /\ UNCHANGED <<last_error, attempt, raised, delays>>

\* execute_tool_sse / execute_tool_ndjson up to the first request in flight.
Call(m) ==
  /\ pc \in {"idle", "returned", "raised"}
  /\ session' = _ensure_session(session)
  /\ mode' = m
  /\ last_error' = NoError
  /\ returned' = "None"
  /\ raised' = NoError
  /\ delays' = <<>>
  /\ wakes' = 0
  /\ it' = 0
  /\ attempt' = 0
  /\ requests' = 1
  /\ pc' = "awaiting"
  /\ outcomes' = <<>>
  /\ last_status' = 0
  /\ sent_on' = _ensure_session(session)
  /\ UNCHANGED <<retry_attempts, retry_delay>>
  /\ UNCHANGED <<reqVars, batchVars>>

\* The request in flight completes: the try body's return, or the except block.
Receive ==
  /\ pc = "awaiting"
  /\ \E met \in AttemptOutcomes[mode, requests] :
       LET out == met.out
       IN  /\ IF out.kind = "returned"
              THEN OnSuccess(out.value)
              ELSE /\ OnError(attempt, out.error)
                   /\ returned' = returned
           /\ outcomes' = Append(outcomes, out.kind)
           /\ last_status' = met.status
  /\ UNCHANGED <<retry_attempts, retry_delay, session, mode, it, requests, wakes,
                 sent_on>>
  /\ UNCHANGED <<reqVars, batchVars>>

\* asyncio.sleep(delay) completes: the next iteration posts its request.
Wake ==
  /\ pc = "sleeping"
  /\ wakes' = wakes + 1
  /\ it' = it + 1
  /\ requests' = requests + 1
  /\ sent_on' = session
  /\ IF session = "open"
     THEN /\ pc' = "awaiting"
          /\ attempt' = it + 1
          /\ UNCHANGED <<last_error, raised, delays, outcomes, last_status>>
     ELSE /\ OnError(it + 1, SessionClosedError(requests + 1))
          /\ outcomes' = Append(outcomes, "raised")
          /\ last_status' = 0
  /\ UNCHANGED <<retry_attempts, retry_delay, session, mode, returned>>
  /\ UNCHANGED <<reqVars, batchVars>>

\* close(), called by another task
Close ==
  /\ session = "open"
  /\ session' = "closed"
  /\ UNCHANGED <<retry_attempts, retry_delay, pc, mode, it, attempt, last_error,
                 returned, raised, requests, delays, wakes, outcomes, last_status,
                 sent_on>>
  /\ UNCHANGED <<reqVars, batchVars>>

Next ==
  \/ \E m \in Modes : Call(m)
  \/ Receive
  \/ Wake
  \/ Close

Spec == Init /\ [][Next]_vars

\* The same, every request attempt and every backoff sleep completing.
SpecLive == Init /\ [][Next]_vars /\ WF_vars(Receive) /\ WF_vars(Wake)

(***************************************************************************)
(* One request attempt, frame by frame (SpecRequest).                      *)
(***************************************************************************)
InitCallIdle ==
  /\ retry_attempts = 1
  /\ retry_delay = 1
  /\ session = "open"
  /\ pc = "idle"
  /\ mode = "sse"
  /\ it = 0
  /\ attempt = 0
  /\ last_error = NoError
  /\ returned = "None"
  /\ raised = NoError
  /\ requests = 0
  /\ delays = <<>>
  /\ wakes = 0
  /\ outcomes = <<>>
  /\ last_status = 0
  /\ sent_on = "None"

InitRequest ==
  /\ rmode \in Modes
  /\ resp \in Responses
  /\ rpos = 0
  /\ result = "None"
  /\ rpc = "post"
  /\ rout = Pending
  /\ InitCallIdle
  /\ InitBatchIdle

\* (mutant) every 2xx status accepted as success
PostAccept2xx ==
  /\ rpc = "post"
  /\ IF resp.status \notin 200..299
     THEN /\ rout' = Raised(_handle_http_error(resp, 1))
          /\ rpc' = "done"
     ELSE /\ rout' = rout
          /\ rpc' = "stream"
  /\ result' = "None"
  /\ UNCHANGED <<rmode, resp, rpos>>
  /\ UNCHANGED <<callVars, batchVars>>

\* session.post(...) answers: the status check, then result = None
Post ==
  /\ rpc = "post"
  /\ IF resp.status # 200
     THEN /\ rout' = Raised(_handle_http_error(resp, 1))
          /\ rpc' = "done"
     ELSE /\ rout' = rout
          /\ rpc' = "stream"
  /\ result' = "None"
  /\ UNCHANGED <<rmode, resp, rpos>>
  /\ UNCHANGED <<callVars, batchVars>>

\* The loop takes the next event/line.
NextEvent ==
  /\ rpc = "stream"
  /\ rpos < Len(resp.stream)
  /\ LET st == StreamStep(rmode, LoopState(result, "run", NoError),
                          resp.stream[rpos + 1], 1)
     IN  /\ rpos' = rpos + 1
         /\ result' = st.result
         /\ IF st.ctl = "raise"
            THEN rout' = Raised(st.error) /\ rpc' = "done"
            ELSE IF st.ctl = "break"
            THEN rout' = Finish(st.result, 1) /\ rpc' = "done"
            ELSE rout' = rout /\ rpc' = rpc
  /\ UNCHANGED <<rmode, resp>>
  /\ UNCHANGED <<callVars, batchVars>>

\* The input is exhausted: the transport's failure, or the code after the loop.
EndOfStream ==
  /\ rpc = "stream"
  /\ rpos = Len(resp.stream)
  /\ rout' = IF resp.fail # "None" THEN Raised(TransportError(resp.fail, 1))
                                   ELSE Finish(result, 1)
  /\ rpc' = "done"
  /\ UNCHANGED <<rmode, resp, rpos, result>>
  /\ UNCHANGED <<callVars, batchVars>>

NextRequest ==
  \/ Post
  \/ NextEvent
  \/ EndOfStream

SpecRequest == InitRequest /\ [][NextRequest]_vars

(***************************************************************************)
(* execute_batch: gathered calls on the shared session (SpecBatch).        *)
(***************************************************************************)
\* The operations a batch may be made of.
Ops == {"opA", "opB"}

\* The responses an attempt of a gathered call may meet.
BatchResponses ==
  { Response(200, NoBody, <<ResultEvent("R1")>>, "None"),
    Response(200, NoBody, <<ResultEvent("R2")>>, "None"),
    Response(200, NoBody,
             <<ErrorEvent("Connection string is invalid", "VALIDATION_FAILED", "None")>>,
             "None"),
    Response(429, Body("json", "object", "Object", "Rate limit exceeded",
                       "RATE_LIMIT_EXCEEDED", "D1"), <<>>, "None"),
    Response(200, NoBody, <<>>, "ClientConnectorError") }

\* The variables of the single execute call, self.session left out.
callLocals == <<retry_attempts, retry_delay, pc, mode, it, attempt, last_error,
                returned, raised, requests, delays, wakes, outcomes, last_status,
                sent_on>>

InitBatch ==
  /\ retry_attempts \in 1..MaxBatchAttempts
  /\ retry_delay = 1
  /\ session = "None"
  /\ pc = "idle"
  /\ mode = "sse"
  /\ it = 0
  /\ attempt = 0
  /\ last_error = NoError
  /\ returned = "None"
  /\ raised = NoError
  /\ requests = 0
  /\ delays = <<>>
  /\ wakes = 0
  /\ outcomes = <<>>
  /\ last_status = 0
  /\ sent_on = "None"
  /\ InitRequestIdle
  /\ operations \in SeqsUpTo(Ops, MaxOps)
  /\ bpc = "idle"
  /\ tpc = <<>>
  /\ tatt = <<>>
  /\ tres = <<>>
  /\ results = <<>>
  /\ created = 0
  /\ open_sessions = 0
  /\ closes = 0

\* An entry of processed_results: a payload, or {"error": ..., "operation": ...}
PayloadEntry(v) == [payload |-> v, error |-> "None", operation |-> "None"]
ErrorEntry(message, op) == [payload |-> "None", error |-> message, operation |-> op]

\* (mutant) the exceptions left out of the list
processed_results_drop_errors(ops, res) ==
  LET ok == SelectSeq(res, LAMBDA r : r.kind # "raised")
  IN  [i \in 1..Len(ok) |-> PayloadEntry(ok[i].value)]

\* results = await asyncio.gather(*tasks, return_exceptions=True), then the
\* conversion of the exceptions: str(result) is the exception's message
processed_results(ops, res) ==
  [i \in 1..Len(ops) |->
     IF res[i].kind = "raised"
     THEN ErrorEntry(res[i].error.message, ops[i])
     ELSE PayloadEntry(res[i].value)]

\* execute_batch up to the await of gather: one coroutine per operation
BatchStart ==
  /\ bpc \in {"idle", "done"}
  /\ bpc' = "gathering"
  /\ tpc' = [i \in 1..Len(operations) |-> "created"]
  /\ tatt' = [i \in 1..Len(operations) |-> 0]
  /\ tres' = [i \in 1..Len(operations) |-> Pending]
  /\ results' = <<>>
  /\ UNCHANGED <<operations, created, open_sessions, closes, session>>
  /\ UNCHANGED <<callLocals, reqVars>>

\* The except block of gathered call i, a being the attempts it has made.
TaskOnError(i, a, error) ==
  IF a >= retry_attempts \/ ~_is_retryable_error(error)
  THEN /\ tpc' = [tpc EXCEPT ![i] = "raised"]
       /\ tres' = [tres EXCEPT ![i] = Raised(error)]
  ELSE /\ tpc' = [tpc EXCEPT ![i] = "sleeping"]
       /\ tres' = tres

\* Gathered call i starts (the tasks start in the order of the list):
\* _ensure_session, then its first request is in flight.
TaskStart(i) ==
  /\ bpc = "gathering"
  /\ tpc[i] = "created"
  /\ \A j \in 1..(i - 1) : tpc[j] # "created"
  /\ session' = _ensure_session(session)
  /\ created' = IF NeedsSession(session) THEN created + 1 ELSE created
  /\ open_sessions' = IF NeedsSession(session) THEN open_sessions + 1
                                               ELSE open_sessions
  /\ tpc' = [tpc EXCEPT ![i] = "awaiting"]
  /\ tatt' = [tatt EXCEPT ![i] = 1]
  /\ UNCHANGED <<operations, bpc, tres, results, closes>>
  /\ UNCHANGED <<callLocals, reqVars>>

\* The request of gathered call i completes.
TaskReceive(i) ==
  /\ bpc = "gathering"
  /\ tpc[i] = "awaiting"
  /\ \E r \in BatchResponses :
       LET out == _execute_sse_request(r, tatt[i])
       IN  IF out.kind = "returned"
           THEN /\ tpc' = [tpc EXCEPT ![i] = "returned"]
                /\ tres' = [tres EXCEPT ![i] = out]
           ELSE TaskOnError(i, tatt[i], out.error)
  /\ UNCHANGED <<operations, bpc, tatt, results, created, open_sessions, closes,
                 session>>
  /\ UNCHANGED <<callLocals, reqVars>>

\* The backoff sleep of gathered call i completes: its next request is posted.
TaskWake(i) ==
  /\ bpc = "gathering"
  /\ tpc[i] = "sleeping"
  /\ tatt' = [tatt EXCEPT ![i] = tatt[i] + 1]
  /\ IF session = "open"
     THEN /\ tpc' = [tpc EXCEPT ![i] = "awaiting"]
          /\ tres' = tres
     ELSE TaskOnError(i, tatt[i] + 1, SessionClosedError(tatt[i] + 1))
  /\ UNCHANGED <<operations, bpc, results, created, open_sessions, closes, session>>
  /\ UNCHANGED <<callLocals, reqVars>>

\* close(), called by another task: whatever the session is
BatchClose ==
  /\ closes < MaxCloses
  /\ closes' = closes + 1
  /\ session' = close(session)
  /\ open_sessions' = IF close(session) # session THEN open_sessions - 1
                                                  ELSE open_sessions
  /\ UNCHANGED <<operations, bpc, tpc, tatt, tres, results, created>>
  /\ UNCHANGED <<callLocals, reqVars>>

\* gather returns once every call has ended; the exceptions are converted.
BatchFinish ==
  /\ bpc = "gathering"
  /\ \A i \in 1..Len(operations) : tpc[i] \in {"returned", "raised"}
  /\ results' = processed_results(operations, tres)
  /\ bpc' = "done"
  /\ UNCHANGED <<operations, tpc, tatt, tres, created, open_sessions, closes, session>>
  /\ UNCHANGED <<callLocals, reqVars>>

NextBatch ==
  \/ BatchStart
  \/ \E i \in 1..Len(operations) : TaskStart(i)
  \/ \E i \in 1..Len(operations) : TaskReceive(i)
  \/ \E i \in 1..Len(operations) : TaskWake(i)
  \/ BatchClose
  \/ BatchFinish

SpecBatch == InitBatch /\ [][NextBatch]_vars

(***************************************************************************)
(* Properties of the retry loop (Spec).                                    *)
(***************************************************************************)
\* The codes the specification's table lists as retryable.
TableRetryableCodes ==
  {"RATE_LIMIT_EXCEEDED", "INTERNAL_ERROR", "TIMEOUT", "CONNECTION_ERROR"}

\* C1: with retry_attempts = N >= 1, a call never makes more than N request
\* attempts, and a call that ends by raising a retryable error (every attempt
\* failed with a retryable error) has made exactly N attempts and raises the
\* exception object created by the N-th attempt.
C1_ExactlyNAttempts ==
  /\ requests <= retry_attempts
  /\ (pc = "raised" /\ _is_retryable_error(raised)) =>
       /\ requests = retry_attempts
       /\ raised.id = retry_attempts
       /\ raised = last_error

\* Three attempts all answered by an error event RATE_LIMIT_EXCEEDED.
C1_Witness ==
  /\ pc = "raised"
  /\ retry_attempts = 3
  /\ requests = 3
  /\ raised.code = "RATE_LIMIT_EXCEEDED"
  /\ raised.id = 3
  /\ Len(delays) = 2

\* C2: an attempt that fails with a TaskMCPError whose code is outside the
\* retryable set (or that has no code) ends the call at once: the call raises
\* that very exception, no request and no sleep follows it; when it is the
\* first attempt, exactly 1 request was made and no sleep at all.
C2_NonRetryableRaisesAtOnce ==
  (last_error.type = "TaskMCPError" /\ last_error.code \notin TableRetryableCodes) =>
     /\ pc = "raised"
     /\ raised = last_error
     /\ requests = last_error.id
     /\ Len(delays) = requests - 1
     /\ wakes = Len(delays)
     /\ last_error.id = 1 => (requests = 1 /\ delays = <<>>)

\* VALIDATION_FAILED on the first attempt of a call allowed three.
C2_Witness ==
  /\ pc = "raised"
  /\ retry_attempts = 3
  /\ raised.code = "VALIDATION_FAILED"
  /\ requests = 1
  /\ delays = <<>>

\* C3: the k-th sleep of a call lasts retry_delay * 2^(k-1); attempt k+1 is
\* in flight only after k sleeps were started and completed; a finished call
\* has slept exactly once between consecutive attempts and not after the last.
C3_BackoffDelays ==
  /\ \A k \in 1..Len(delays) : delays[k] = retry_delay * (2 ^ (k - 1))
  /\ pc = "sleeping" => (Len(delays) = requests /\ wakes = requests - 1)
  /\ pc \in {"awaiting", "returned", "raised"} =>
       (Len(delays) = requests - 1 /\ wakes = requests - 1)

\* retry_delay 2, three failed attempts: sleeps of 2 and 4.
C3_Witness ==
  /\ pc = "raised"
  /\ retry_delay = 2
  /\ requests = 3
  /\ delays = <<2, 4>>
  /\ wakes = 2

\* C4: every exception an execute call raises to its caller is a TaskMCPError.
C4_AlwaysToolError ==
  pc = "raised" => raised.type = "TaskMCPError"

\* str(error).lower() contains "timeout" or "connection"
MessageMatches(error) ==
  \/ Contains("timeout", Lower(error.message))
  \/ Contains("connection", Lower(error.message))

\* C5 (as claimed): an attempt that fails while attempts remain, with an
\* exception of whatever type and code whose message contains "timeout" or
\* "connection", is classified as retryable and the call does not raise it.
C5_AnyMessageRetryable ==
  (last_error # NoError /\ MessageMatches(last_error)
     /\ last_error.id < retry_attempts) =>
     /\ _is_retryable_error(last_error)
     /\ pc # "raised"

\* C5 (amended): the same for every exception that is not a TaskMCPError.
C5_NonToolErrorMessageRetryable ==
  (last_error # NoError /\ last_error.type # "TaskMCPError"
     /\ MessageMatches(last_error)) =>
     /\ _is_retryable_error(last_error)
     /\ last_error.id < retry_attempts => pc # "raised"

\* "Connection reset by peer", neither ClientError nor TimeoutError, is being
\* retried: the call sleeps before its next attempt.
C5_Witness ==
  /\ pc = "sleeping"
  /\ last_error.type = "ConnectionResetError"
  /\ last_error.message = "Connection reset by peer"
  /\ requests < retry_attempts

\* C6: classification by code and kind follows the table: a TaskMCPError with
\* one of the four codes, an aiohttp.ClientError and an asyncio.TimeoutError
\* are retryable (and retried while attempts remain); a TaskMCPError with any
\* other code, or none, is not retryable and is raised at once.
C6_TableAgrees ==
  /\ ( \/ (last_error.type = "TaskMCPError" /\ last_error.code \in TableRetryableCodes)
       \/ last_error.type \in {"ClientConnectorError", "ClientPayloadError", "TimeoutError"} )
     => /\ _is_retryable_error(last_error)
        /\ pc = "raised" => requests = retry_attempts
  /\ (last_error.type = "TaskMCPError" /\ last_error.code \notin TableRetryableCodes)
     => /\ ~_is_retryable_error(last_error)
        /\ pc = "raised"
        /\ raised = last_error

\* A timeout expiry is being retried.
C6_Witness ==
  /\ pc = "sleeping"
  /\ last_error.type = "TimeoutError"
  /\ requests < retry_attempts

(***************************************************************************)
(* Properties of one request attempt (SpecRequest).                        *)
(***************************************************************************)
\* An error event of the protocol: an SSE frame named error / an NDJSON line
\* of type error whose payload is an object {error: {message, code, details}}.
IsErrorEvent(f) == f.name = "error" /\ f.json = "object" /\ f.err = "Object"

\* A result event of the protocol.
IsResultEvent(f) == f.name = "result" /\ f.json = "object"

Start == LoopState("None", "run", NoError)

IsNeutral(f) ==
  \/ f.json \in {"bad", "blank"}
  \/ (f.json = "object" /\ f.name \notin {"result", "error"})

IsEnd(f) == f.json = "object" /\ f.name = "end"

IsStart(f) == f.json = "object" /\ f.name = "start"

\* Index of the first `end` line of s, 0 when there is none.
FirstEnd(s) ==
  IF \E i \in 1..Len(s) : IsEnd(s[i])
  THEN CHOOSE i \in 1..Len(s) : IsEnd(s[i]) /\ \A j \in 1..(i - 1) : ~IsEnd(s[j])
  ELSE 0

RECURSIVE Without(_, _)
\* s without its `start` lines (which = "start") or its `end` frames ("end")
Without(s, which) ==
  IF s = <<>> THEN <<>>
  ELSE IF (which = "start" /\ IsStart(Head(s))) \/ (which = "end" /\ IsEnd(Head(s)))
       THEN Without(Tail(s), which)
       ELSE <<Head(s)>> \o Without(Tail(s), which)

\* C9: NDJSON: no line after the first `end` line is consumed and the outcome
\* is that of the stream cut after it; `start` lines do not change the
\* outcome; start, result R1, end returns R1.  SSE: a frame named end does not
\* stop the loop: the code after the loop runs only once the input is
\* exhausted, and frames named end do not change the outcome.
C9_EndStopsNdjsonOnly ==
  (rpc = "done" /\ resp.status = 200) =>
    /\ rmode = "ndjson" =>
         /\ FirstEnd(resp.stream) # 0 =>
              /\ rpos <= FirstEnd(resp.stream)
              /\ rout = RunStream("ndjson", SubSeq(resp.stream, 1, FirstEnd(resp.stream)),
                                  "None", Start, 1)
         /\ rout = RunStream("ndjson", Without(resp.stream, "start"), resp.fail, Start, 1)
         /\ (resp.stream = <<Plain("start", "object"), ResultEvent("R1"), Plain("end", "object")>>
               /\ resp.fail = "None")
              => rout = Returned("R1")
    /\ rmode = "sse" =>
         /\ (rout.kind = "returned" \/ rout.error.message = "No result received from server")
              => rpos = Len(resp.stream)
         /\ rout = RunStream("sse", Without(resp.stream, "end"), resp.fail, Start, 1)

\* NDJSON: result R1, end, then an error line that is never read.
C9_Witness ==
  /\ rmode = "ndjson"
  /\ rpc = "done"
  /\ Len(resp.stream) = 3
  /\ IsResultEvent(resp.stream[1])
  /\ IsEnd(resp.stream[2])
  /\ IsErrorEvent(resp.stream[3])
  /\ rpos = 2
  /\ rout = Returned("R1")

\* Frames the claim calls skippable: payload that is not valid JSON (under any
\* name), and frames with an unrecognized event name.
Skippable(m) ==
  { Plain("error", "bad"), Plain("result", "bad"), Plain("progress", "bad"),
    Plain("progress", "object") }
  \cup (IF m = "sse" THEN { Plain("progress", "scalar"), Plain("start", "object") }
                     ELSE { Plain("heartbeat", "object"), Plain("", "object") })

InsertAt(s, i, f) == SubSeq(s, 1, i) \o <<f>> \o SubSeq(s, i + 1, Len(s))

WellFormedErrorBody(b) ==
  b.json = "object" /\ b.err = "Object" /\ b.message # "Absent" /\ b.code # "None"

Non2xx(status) == status \notin 200..299

\* The outcome is a raised TaskMCPError carrying the members of body b.
RaisedFromBody(out, b) ==
  /\ out.kind = "raised"
  /\ out.error.type = "TaskMCPError"
  /\ out.error.message = b.message
  /\ out.error.code = b.code
  /\ b.details # "None" => out.error.details = b.details

\* C11 (as claimed): every non-2xx response whose body is a well-formed
\* {error: {message, code, details}} object makes the attempt raise a
\* TaskMCPError with exactly that message, code and details, no frame or line
\* of the response having been parsed.
C11_WellFormedBodyRaised ==
  (rpc = "done" /\ Non2xx(resp.status) /\ WellFormedErrorBody(resp.body)) =>
     (RaisedFromBody(rout, resp.body) /\ rpos = 0)

\* C11 (amended): the same for the responses whose content type is JSON.
C11_WellFormedJsonBodyRaised ==
  (rpc = "done" /\ Non2xx(resp.status) /\ WellFormedErrorBody(resp.body)
     /\ resp.body.ctype = "json") =>
     (RaisedFromBody(rout, resp.body) /\ rpos = 0)

\* 429 with a JSON error object and one frame in the response, left unread.
C11_Witness ==
  /\ rpc = "done"
  /\ resp.status = 429
  /\ resp.body.ctype = "json"
  /\ resp.body.code = "RATE_LIMIT_EXCEEDED"
  /\ Len(resp.stream) = 1
  /\ rpos = 0
  /\ rout.kind = "raised"
  /\ rout.error.message = "Rate limit exceeded"
  /\ rout.error.details = "D1"

\* The message names the numeric status code.
MentionsStatus(message, status) ==
  message \in {HttpMessage(status), HttpReasonMessage(status)}

\* C12: for every body shape of a non-2xx response HTTP error translation
\* raises a TaskMCPError, whose message names the status code when the body
\* cannot be parsed.
C12_AlwaysToolError ==
  (rpc = "done" /\ Non2xx(resp.status)) =>
     /\ rout.kind = "raised"
     /\ rout.error.type = "TaskMCPError"
     /\ resp.body.json = "bad" => MentionsStatus(rout.error.message, resp.status)

\* C20: a response whose status is not exactly 200 (201 included) goes to HTTP
\* error translation and none of its frames is ever consumed; a response with
\* status 200 has its stream parsed: the attempt ends only when a frame ends
\* it or the input is exhausted.
C20_ParsedOnlyOn200 ==
  /\ resp.status # 200 =>
       /\ rpos = 0
       /\ rpc \in {"post", "done"}
       /\ rpc = "done" => rout = Raised(_handle_http_error(resp, 1))
  /\ (resp.status = 200 /\ rpc # "post") =>
       /\ result = "None" \/ rpos > 0
       /\ rpc = "done" =>
            \/ rpos = Len(resp.stream)
            \/ (rpos > 0 /\ StreamStep(rmode, Start, resp.stream[rpos], 1).ctl # "run")

\* 201 Created with a result frame in its body: raised, frame unread.
C20_Witness ==
  /\ rpc = "done"
  /\ resp.status = 201
  /\ Len(resp.stream) = 1
  /\ IsResultEvent(resp.stream[1])
  /\ rpos = 0
  /\ rout.kind = "raised"

(***************************************************************************)
(* Properties of the retry loop, continued (Spec, SpecLive).               *)
(***************************************************************************)
\* C16: the call stops at its first successful attempt: when it has returned,
\* the attempt that succeeded is the last one made and every earlier one
\* failed with a retryable error, the value returned is a result payload, no
\* error reaches the caller, and no attempt is ever made after a success.
C16_StopsAtFirstSuccess ==
  /\ \A k \in 1..Len(outcomes) :
       outcomes[k] = "returned" => (k = Len(outcomes) /\ pc = "returned")
  /\ pc = "returned" =>
       /\ Len(outcomes) = requests
       /\ outcomes[requests] = "returned"
       /\ requests <= retry_attempts
       /\ returned # "None"
       /\ raised = NoError
       /\ requests > 1 =>
            (last_error.id = requests - 1 /\ _is_retryable_error(last_error))

\* Two retryable failures, then the third attempt succeeds.
C16_Witness ==
  /\ pc = "returned"
  /\ outcomes = <<"raised", "raised", "returned">>
  /\ returned # "None"
  /\ raised = NoError

\* C17: every execute call eventually completes, and the number of attempts
\* it has made never exceeds retry_attempts.
C17_Terminates ==
  /\ (pc \in {"awaiting", "sleeping"}) ~> (pc \in {"returned", "raised"})
  /\ [](requests <= retry_attempts /\ Len(outcomes) <= requests)

\* The whole budget of three attempts spent, the call has raised.
C17_Witness ==
  /\ pc = "raised"
  /\ retry_attempts = MaxRetryAttempts
  /\ requests = retry_attempts
  /\ wakes = retry_attempts - 1

\* C18: every request attempt of an execute call, the first one and each
\* retry, is sent on a session that is open at that moment.
C18_SentOnOpenSession ==
  requests >= 1 => sent_on = "open"

\* The verdict of the classifier on a failure, the status left aside.
RetryableCode(error) ==
  IsInstance(error, "TaskMCPError") /\ error.code \in TableRetryableCodes

\* C19: retryability never depends on the HTTP status: an attempt that met a
\* response with a status other than 200 is followed by a retry only if the
\* error object of the body carries a retryable code; otherwise, whatever the
\* status (429 and 504 included), it is the last attempt of the call.
C19_StatusNeverRetryable ==
  (pc \in {"sleeping", "raised"} /\ last_status \notin {0, 200}) =>
     /\ last_error.id = requests
     /\ pc = "sleeping" <=> (RetryableCode(last_error) /\ requests < retry_attempts)
     /\ ~RetryableCode(last_error) => (pc = "raised" /\ raised = last_error)

\* 504 with an unparseable body, attempts to spare: raised after one attempt.
C19_Witness ==
  /\ pc = "raised"
  /\ last_status = 504
  /\ retry_attempts > 1
  /\ requests = 1
  /\ raised.message = HttpReasonMessage(504)

(***************************************************************************)
(* Properties of execute_batch and of the shared session (SpecBatch).      *)
(***************************************************************************)
\* C13: execute_batch over N operations returns exactly N entries in input
\* order: entry i is the payload gathered call i returned, or, if call i
\* raised, the record {error, operation} with operation = operations[i]; the
\* batch returns only when every call has ended, whatever the others did.
C13_BatchEntriesInOrder ==
  bpc = "done" =>
    /\ Len(results) = Len(operations)
    /\ \A i \in 1..Len(operations) :
         /\ tpc[i] \in {"returned", "raised"}
         /\ tpc[i] = "returned" =>
              (results[i] = PayloadEntry(tres[i].value) /\ tres[i].value # "None")
         /\ tpc[i] = "raised" =>
              /\ results[i].operation = operations[i]
              /\ results[i].error = tres[i].error.message
              /\ results[i].payload = "None"

\* Two different operations, the first failed, the second succeeded.
C13_Witness ==
  /\ bpc = "done"
  /\ operations = <<"opA", "opB">>
  /\ tpc = <<"raised", "returned">>
  /\ results[1] = ErrorEntry("Connection string is invalid", "opA")
  /\ results[2] = PayloadEntry("R1")

\* Some gathered call has gone through _ensure_session.
SomeCallStarted == \E i \in 1..Len(tpc) : tpc[i] # "created"

\* C14: no session exists before the first operation; a session is created
\* only when there is none or the existing one is closed; with no close() the
\* calls in flight share the one session that was created; the client never
\* holds two open sessions.
C14_OneSharedSession ==
  /\ (bpc = "idle" /\ closes = 0) => (session = "None" /\ created = 0)
  /\ created = 0 <=> session = "None"
  /\ open_sessions = IF session = "open" THEN 1 ELSE 0
  /\ created <= closes + 1
  /\ (closes = 0 /\ SomeCallStarted) => (created = 1 /\ session = "open")

\* All the calls of a batch in flight at once on the one session.
C14_Witness ==
  /\ bpc = "gathering"
  /\ Len(operations) = MaxOps
  /\ \A i \in 1..Len(operations) : tpc[i] = "awaiting"
  /\ closes = 0
  /\ created = 1
  /\ open_sessions = 1

\* C15: close() is idempotent: on a client with no session or with a closed
\* one it changes nothing, on an open session it closes it; after close() the
\* next call that ensures the session gets a new, open one.
C15_CloseIdempotent ==
  /\ [][closes' # closes =>
          /\ session \in {"None", "closed"} =>
               (session' = session /\ open_sessions' = open_sessions)
          /\ session = "open" => session' = "closed"
          /\ close(session') = session'
          /\ UNCHANGED <<operations, bpc, tpc, tatt, tres, results, created>>]_vars
  /\ [][(session = "closed" /\ bpc = "gathering" /\ bpc' = "gathering"
           /\ \E i \in 1..Len(tpc) : tpc[i] = "created" /\ tpc'[i] # "created")
          => (session' = "open" /\ created' = created + 1)]_vars

\* Two close() calls over the life of one session, which is closed.
C15_Witness ==
  /\ closes = 2
  /\ created = 1
  /\ session = "closed"

====
